---- MODULE Spec2Model ----
(***************************************************************************)
(* Model of the SPECTRE dataset loader (src/src/spectre/dataset.py and     *)
(* src/src/spectre/utils.py): root scanning with augmentation, the         *)
(* cleaning pass with its cache, and the generator protocol (send, throw,  *)
(* close, __len__).                                                        *)
(*                                                                         *)
(* Numbers.  The arrays hold reals.  A real is modelled exactly as         *)
(*     <<a0, a1, a2, d>>  =  (a0 + a1*eps + a2*eps^2) / d,   d > 0,        *)
(* where eps stands for utils.EPSILON (1e-8).  Every other quantity of the *)
(* model is a ratio of small integers, so eps is smaller than any gap      *)
(* between two of them and ordering is lexicographic in (a0, a1, a2).      *)
(* Floating point rounding is not modelled.                                *)
(***************************************************************************)
EXTENDS Integers, Sequences, FiniteSets, TLC

VARIABLES
    listdir,        \* os.listdir(root_dir): the entries under the root, in scan order
    cachefs,        \* the cache storage: dirs, the directories made; files, path -> content;
                    \* saved, path -> the index held by the object that wrote the file
    self,           \* the fields of the live SPECTRE object, and where its constructor stands
    out,            \* what the last call on the object gave its caller
    hist            \* history of the live object: calls made, reads made, what was evaluated

vars == <<listdir, cachefs, self, out, hist>>

NONE == <<"None">>

\* a field that holds None or an array: the set of what it holds
Nothing == {}
Some(x) == {x}
Get(o) == CHOOSE x \in o : TRUE

----------------------------------------------------------------------------
(* Bounds *)

MaxMeas == 2        \* measurement folders under the root
MaxExtra == 2       \* send calls allowed beyond the length of the index
MaxFails == 1       \* send calls whose read fails
MaxScanMeas == 3    \* measurement folders a root listing of SpecScan draws from
MaxScanEntries == 4 \* entries of a root listing of SpecScan
MaxReads == 2       \* measurement reads on one object of SpecRead
MaxNormLen == 2     \* elements of an array given to the normalizer in SpecNorm

----------------------------------------------------------------------------
(* Exact arithmetic on <<a0, a1, a2, d>> *)

Abs(x) == IF x < 0 THEN -x ELSE x

RECURSIVE Gcd(_, _)
Gcd(a, b) == IF b = 0 THEN a ELSE Gcd(b, a % b)

NNorm(x) ==
    LET g == Gcd(Gcd(Gcd(Abs(x[1]), Abs(x[2])), Abs(x[3])), x[4])
    IN  <<x[1] \div g, x[2] \div g, x[3] \div g, x[4] \div g>>

Rat(n, d) == NNorm(<<n, 0, 0, d>>)

NAdd(x, y) ==
    NNorm(<<x[1] * y[4] + y[1] * x[4], x[2] * y[4] + y[2] * x[4],
            x[3] * y[4] + y[3] * x[4], x[4] * y[4]>>)

NSub(x, y) == NAdd(x, <<-y[1], -y[2], -y[3], y[4]>>)

\* Terms in eps^3 and eps^4 are cut: products are taken of normalized values
\* only, which are of degree <= 1 in eps.
NMul(x, y) ==
    NNorm(<<x[1] * y[1], x[1] * y[2] + x[2] * y[1],
            x[1] * y[3] + x[2] * y[2] + x[3] * y[1], x[4] * y[4]>>)

\* Division by a rational y = y[1] / y[4], y # 0.
NDiv(x, y) ==
    IF y[1] > 0
    THEN NNorm(<<x[1] * y[4], x[2] * y[4], x[3] * y[4], x[4] * y[1]>>)
    ELSE NNorm(<<-x[1] * y[4], -x[2] * y[4], -x[3] * y[4], x[4] * (-y[1])>>)

NLess(x, y) ==
    LET l == <<x[1] * y[4], x[2] * y[4], x[3] * y[4]>>
        r == <<y[1] * x[4], y[2] * x[4], y[3] * x[4]>>
    IN  \/ l[1] < r[1]
        \/ l[1] = r[1] /\ l[2] < r[2]
        \/ l[1] = r[1] /\ l[2] = r[2] /\ l[3] < r[3]

\* utils.EPSILON = 1e-8
EPSILON == <<0, 1, 0, 1>>

One == Rat(1, 1)

\* np.clip(x, a_min, a_max) on one element
Clip(x, a_min, a_max) ==
    IF NLess(x, a_min) THEN a_min
    ELSE IF NLess(a_max, x) THEN a_max
    ELSE x

\* np.clip(x, a_min, None) and DataFrame.clip(lower) on one element
ClipLower(x, a_min) == IF NLess(x, a_min) THEN a_min ELSE x

\* element-wise a * b of two arrays of one shape
ArrMul(a, b) == [k \in 1..Len(a) |-> NMul(a[k], b[k])]

RECURSIVE ArrSum(_)
ArrSum(a) == IF a = <<>> THEN Rat(0, 1) ELSE NAdd(a[1], ArrSum(Tail(a)))

\* np.mean
Mean(a) == NDiv(ArrSum(a), Rat(Len(a), 1))

----------------------------------------------------------------------------
(* Strings and paths.  A string is the sequence of its characters. *)

Dark == <<"D", "a", "r", "k">>
White == <<"W", "h", "i", "t", "e">>
Hidden == <<".", "g", "i", "t">>
MeasName(k) == <<"m", ToString(k)>>

RootDir == <<"d">>
DefaultCacheDir == <<".", "s", "p", "e", "c", "t", "r", "e", "_", "c", "a", "c", "h", "e", "/">>
SameCacheDir == <<".", "s", "p", "e", "c", "t", "r", "e", "_", "c", "a", "c", "h", "e">>
CacheFileName == <<"d", "a", "t", "a", "s", "e", "t", "_", "c", "a", "c", "h", "e", ".", "p", "i", "c", "k", "l", "e">>

\* str.startswith
StartsWith(f, prefix) ==
    /\ Len(f) >= Len(prefix)
    /\ \A k \in 1..Len(prefix) : f[k] = prefix[k]

\* os.path.join of two relative parts
Join(a, b) ==
    IF a = <<>> THEN b
    ELSE IF a[Len(a)] = "/" THEN a \o b
    ELSE a \o <<"/">> \o b

\* the directory a path names: a trailing separator does not matter
DirOf(path) ==
    IF path # <<>> /\ path[Len(path)] = "/" THEN SubSeq(path, 1, Len(path) - 1) ELSE path

----------------------------------------------------------------------------
(* The measurement files under the root *)

MeasFolders == {Join(RootDir, MeasName(k)) : k \in 1..MaxMeas}

MeasIndex(folder) == CHOOSE k \in 1..MaxMeas : folder = Join(RootDir, MeasName(k))

\* spectrum.csv of a folder: rows <<wavelength, Intensity>>
SpectrumCsv(folder) ==
    IF folder = Join(RootDir, Dark) THEN <<<<449, 1>>, <<450, 1>>, <<689, 1>>, <<690, 1>>>>
    ELSE IF folder = Join(RootDir, White) THEN <<<<449, 5>>, <<450, 5>>, <<689, 5>>, <<690, 5>>>>
    ELSE CASE MeasIndex(folder) % 4 = 1 -> <<<<449, 3>>, <<450, 0>>, <<689, 9>>, <<690, 0>>>>
           [] MeasIndex(folder) % 4 = 2 -> <<<<449, 9>>, <<450, 2>>, <<689, 2>>, <<690, 9>>>>
           [] MeasIndex(folder) % 4 = 3 -> <<<<449, 9>>, <<450, 1>>, <<689, 3>>, <<690, 0>>>>
           [] OTHER -> <<<<449, 0>>, <<450, 5>>, <<689, 7>>, <<690, 9>>>>

\* {int_time}_frame.npy of a folder, flattened
FrameNpy(folder, int_time) ==
    IF folder = Join(RootDir, Dark) THEN <<1>>
    ELSE IF folder = Join(RootDir, White) THEN <<5>>
    ELSE IF int_time = 1400 THEN <<(MeasIndex(folder) % 4) + 2>>
    ELSE <<MeasIndex(folder) % 4>>

DefaultIntTime == 1400
DefaultLambRange == <<450, 690>>

\* utils.read_frame
read_frame(folder, int_time) ==
    LET frame == FrameNpy(folder, int_time)
    IN  [k \in 1..Len(frame) |-> ClipLower(Rat(frame[k], 1), EPSILON)]

InRange(row, lamb_range) == lamb_range[1] <= row[1] /\ row[1] <= lamb_range[2] - 1

\* utils.read_spectrum.  The wavelengths of the rows are whole and distinct, so
\* the rounding and the mean per wavelength leave the rows as they are.
read_spectrum(folder, lamb_range) ==
    LET rows == SpectrumCsv(folder)
        clipped == [k \in 1..Len(rows) |->
                       <<rows[k][1], ClipLower(Rat(rows[k][2], 1), EPSILON)>>]
        kept == SelectSeq(clipped, LAMBDA row : InRange(row, lamb_range))
    IN  [k \in 1..Len(kept) |-> kept[k][2]]

\* utils.read_measurement: lamb_range is accepted and not passed on
read_measurement(folder, int_time, lamb_range) ==
    <<read_frame(folder, int_time), read_spectrum(folder, DefaultLambRange)>>

\* a call of one of the two file readers: which, on what folder, with what argument
Call(fn, folder, arg) == [fn |-> fn, folder |-> folder, arg |-> arg]

\* the reader calls utils.read_measurement makes: read_frame(folder, int_time) and
\* read_spectrum(folder), the latter with its own default range
read_measurement_calls(folder, int_time, lamb_range) ==
    <<Call("read_frame", folder, <<int_time>>), Call("read_spectrum", folder, DefaultLambRange)>>

normalize_array_offset(array, dark, white) ==
    [k \in 1..Len(array) |->
        Clip(NAdd(NDiv(NSub(array[k], dark[k]), NSub(white[k], dark[k])), EPSILON), EPSILON, One)]

\* utils.normalize_array
normalize_array(array, dark, white) ==
    [k \in 1..Len(array) |->
        Clip(NDiv(NSub(array[k], dark[k]), NSub(white[k], dark[k])), EPSILON, One)]

----------------------------------------------------------------------------
(* SPECTRE._scan_root *)

IsMeasurementNotHidden(f) == ~StartsWith(f, <<".">>)

\* the filter of the list comprehension
IsMeasurement(f) == ~StartsWith(f, <<".">>) /\ f \notin {Dark, White}

RECURSIVE CrossList(_, _)

CrossListSwapped(first, second) ==
    [k \in 1..(Len(first) * Len(second)) |->
        <<second[((k - 1) % Len(second)) + 1][1], first[((k - 1) \div Len(second)) + 1][1]>>]

\* [(a[0], b[0]) for a in first for b in second], row by row
CrossList(first, second) ==
    IF first = <<>> THEN <<>>
    ELSE [k \in 1..Len(second) |-> <<first[1][1], second[k][1]>>] \o CrossList(Tail(first), second)

scan_root(root_dir, entries, augment) ==
    LET names == SelectSeq(entries, IsMeasurement)
        raw_meas_list == [k \in 1..Len(names) |-> <<Join(root_dir, names[k]), NONE>>]
        half == Len(raw_meas_list) \div 2
        multiplied_list == CrossList(SubSeq(raw_meas_list, 1, half),
                                     SubSeq(raw_meas_list, half + 1, Len(raw_meas_list)))
        squared_list == [k \in 1..Len(raw_meas_list) |-> <<raw_meas_list[k][1], raw_meas_list[k][1]>>]
    IN  IF ~augment THEN raw_meas_list
        ELSE raw_meas_list \o multiplied_list \o squared_list

----------------------------------------------------------------------------
(* Inputs *)

IntTimes == {DefaultIntTime}
Thresholds == {Rat(0, 1), Rat(1, 4), Rat(1, 2)}
CacheDirs == {NONE, SameCacheDir}

\* the sequences without repetition over S, of length <= n
Listings(S, n) ==
    UNION {{q \in [1..m -> S] : \A a, b \in 1..m : a # b => q[a] # q[b]} : m \in 0..n}

\* a root holding the two references, a hidden entry and the measurement folders ms
Layout(ms) ==
    LET h == (Len(ms) + 1) \div 2
    IN  SubSeq(ms, 1, h) \o <<Dark, Hidden>> \o SubSeq(ms, h + 1, Len(ms)) \o <<White>>

\* np.arange(n)
arange(n) == [k \in 1..n |-> k - 1]

\* the orders np.random.shuffle is let to draw: as drawn, reversed, rotated by one
Shuffles(n) ==
    {arange(n), [k \in 1..n |-> n - k], [k \in 1..n |-> k % n]}

----------------------------------------------------------------------------
(* pickle *)

pickle_dump(meas_list) ==
    [t |-> "list",
     items |-> [k \in 1..Len(meas_list) |->
                  [t |-> "tuple",
                   items |-> <<[t |-> "str", v |-> meas_list[k][1]],
                               IF meas_list[k][2] = NONE THEN [t |-> "none", v |-> <<>>]
                               ELSE [t |-> "str", v |-> meas_list[k][2]]>>]]]

Unpickle(obj) == IF obj.t = "none" THEN NONE ELSE obj.v

pickle_load_reversed(data) ==
    [k \in 1..Len(data.items) |->
        <<Unpickle(data.items[Len(data.items) + 1 - k].items[1]),
          Unpickle(data.items[Len(data.items) + 1 - k].items[2])>>]

pickle_load(data) ==
    [k \in 1..Len(data.items) |->
        <<Unpickle(data.items[k].items[1]), Unpickle(data.items[k].items[2])>>]

----------------------------------------------------------------------------
(* The object *)

NoObject ==
    [pc |-> "none", int_time |-> DefaultIntTime, lamb_range |-> DefaultLambRange,
     root_dir |-> <<>>, cache_dir |-> NONE, cache |-> FALSE, clean_threshold |-> Rat(0, 1),
     augment |-> FALSE, shuffle |-> FALSE, ids |-> Nothing, i |-> 0,
     dark_meas |-> NONE, white_meas |-> NONE, meas_list |-> <<>>, num_meas |-> 0,
     it |-> 0, ret |-> "init"]

\* what a call gave: kind is "object" (the constructor returned), "len", "item",
\* "stop" (StopIteration), "closed" (close returned), "raised" (close raised) or
\* "error" (a read raised);
\* value is the length reported or the (frame, spectrum) pair produced, desc the
\* descriptor the call read
NoOut == [kind |-> "none", value |-> 0, desc |-> NONE]

\* sends, fails, yielded: the send calls made, those whose read failed, those that
\* gave an item; closed: close was called; finalizations: the calls of
\* _init_dataset; hit: it loaded the cache record; wrote: it wrote the record;
\* reads: the folders whose spectrum it read; evaluated: the descriptors the
\* cleaning loop took up; candidate: what _scan_root returned; requests: the
\* reader calls made for the references and for single measurements
NoHist ==
    [sends |-> 0, fails |-> 0, yielded |-> 0, closed |-> FALSE,
     finalizations |-> 0, hit |-> FALSE, wrote |-> FALSE, reads |-> <<>>,
     evaluated |-> <<>>, candidate |-> <<>>, requests |-> <<>>]

\* SPECTRE._read_reference
read_reference(s) ==
    <<read_measurement(Join(s.root_dir, Dark), DefaultIntTime, DefaultLambRange),
      read_measurement(Join(s.root_dir, White), DefaultIntTime, DefaultLambRange)>>

\* the reader calls SPECTRE._read_reference makes: read_measurement is called with
\* the folder alone
read_reference_calls(s) ==
    read_measurement_calls(Join(s.root_dir, Dark), DefaultIntTime, DefaultLambRange)
        \o read_measurement_calls(Join(s.root_dir, White), DefaultIntTime, DefaultLambRange)

\* SPECTRE._normalize_measurement
normalize_measurement(s, frame, spectrum) ==
    <<normalize_array(frame, s.dark_meas[1], s.white_meas[1]),
      normalize_array(spectrum, s.dark_meas[2], s.white_meas[2])>>

\* SPECTRE._read_meas_file_singular
read_meas_file_singular(s, path) ==
    LET m == read_measurement(path, s.int_time, DefaultLambRange)
    IN  normalize_measurement(s, m[1], m[2])

\* the descriptor _read_meas_file resolves for a cursor position
PathTuple(s, index) == s.meas_list[index + 1]

\* SPECTRE._read_meas_file
read_meas_file(s, index) ==
    LET path_tuple == PathTuple(s, index)
    IN  IF path_tuple[2] = NONE THEN read_meas_file_singular(s, path_tuple[1])
        ELSE LET a == read_meas_file_singular(s, path_tuple[1])
                 b == read_meas_file_singular(s, path_tuple[2])
             IN  <<ArrMul(a[1], b[1]), ArrMul(a[2], b[2])>>

\* the spectrum the cleaning loop computes for one descriptor
CombinedSpectrum(s, meas) ==
    IF meas[2] = NONE
    THEN normalize_array(read_spectrum(meas[1], DefaultLambRange), s.dark_meas[2], s.white_meas[2])
    ELSE ArrMul(normalize_array(read_spectrum(meas[1], DefaultLambRange), s.dark_meas[2], s.white_meas[2]),
                normalize_array(read_spectrum(meas[2], DefaultLambRange), s.dark_meas[2], s.white_meas[2]))

\* mean_signal = np.mean(spectrum)
MeanSignal(s, meas) == Mean(CombinedSpectrum(s, meas))

\* the folders whose spectrum the cleaning loop reads for one descriptor
SpectrumReads(meas) == IF meas[2] = NONE THEN <<meas[1]>> ELSE <<meas[1], meas[2]>>

DiscardAtThreshold(mean_signal, clean_threshold) == ~NLess(clean_threshold, mean_signal)

\* the test that discards a descriptor
Discard(mean_signal, clean_threshold) == NLess(mean_signal, clean_threshold)

RemoveLast(list, x) == SubSeq(list, 1, Len(list) - 1)

\* list.remove: the first element equal to x goes
Remove(list, x) ==
    LET k == CHOOSE k \in 1..Len(list) : list[k] = x /\ \A j \in 1..(k - 1) : list[j] # x
    IN  [j \in 1..(Len(list) - 1) |-> IF j < k THEN list[j] ELSE list[j + 1]]

NeverFinalized(s) == FALSE

\* the guard of __len__: has the index been finalized
IsFinalized(s) == s.ids # Nothing

\* len(self._ids)
LenIds(s) == Len(Get(s.ids))

HasNextEarly(s) == s.i + 1 < LenIds(s)

\* the guard of send
HasNext(s) == s.i < LenIds(s)

\* the location of the cache record
CacheDirOf(s) == IF s.cache_dir = NONE THEN DefaultCacheDir ELSE s.cache_dir
CacheFile(s) == Join(CacheDirOf(s), CacheFileName)

CacheHitMatching(s, fs) ==
    /\ CacheFile(s) \in DOMAIN fs.files
    /\ s.cache
    /\ \A k \in 1..Len(fs.files[CacheFile(s)].items) :
           \E j \in 1..Len(s.meas_list) : s.meas_list[j] = pickle_load(fs.files[CacheFile(s)])[k]

\* the test that loads the cache record instead of cleaning
CacheHit(s, fs) == CacheFile(s) \in DOMAIN fs.files /\ s.cache

\* open(..., "wb") and pickle.dump
WriteFile(fs, file, data) ==
    [fs EXCEPT !.files = [f \in DOMAIN fs.files \cup {file} |-> IF f = file THEN data ELSE fs.files[f]]]

\* the record is written from the index of s
Persist(fs, s) ==
    [WriteFile(fs, CacheFile(s), pickle_dump(s.meas_list)) EXCEPT
        !.saved = [f \in DOMAIN fs.saved \cup {CacheFile(s)} |->
                      IF f = CacheFile(s) THEN s.meas_list ELSE fs.saved[f]]]

\* os.mkdir, FileExistsError passed over
Mkdir(fs, dir) == [fs EXCEPT !.dirs = @ \cup {DirOf(dir)}]

\* the orders self._ids may take
IdsOf(s) == IF s.shuffle THEN Shuffles(Len(s.meas_list)) ELSE {arange(Len(s.meas_list))}

----------------------------------------------------------------------------
(* The generator protocol *)

SendBodyStopOnError(s, h, fail) ==
    IF HasNext(s) /\ ~fail
    THEN /\ self' = [s EXCEPT !.i = @ + 1]
         /\ out' = [kind |-> "item", value |-> read_meas_file(s, s.i), desc |-> PathTuple(s, s.i)]
         /\ hist' = [h EXCEPT !.sends = @ + 1, !.yielded = @ + 1]
    ELSE /\ fail => HasNext(s) /\ h.fails < MaxFails
         /\ self' = s
         /\ out' = [kind |-> "stop", value |-> 0, desc |-> NONE]
         /\ hist' = [h EXCEPT !.sends = @ + 1, !.fails = IF fail THEN @ + 1 ELSE @]

SendBodyRewind(s, h, fail) ==
    IF HasNext(s)
    THEN IF fail
         THEN /\ h.fails < MaxFails
              /\ self' = s
              /\ out' = [kind |-> "error", value |-> 0, desc |-> PathTuple(s, s.i)]
              /\ hist' = [h EXCEPT !.sends = @ + 1, !.fails = @ + 1]
         ELSE /\ self' = [s EXCEPT !.i = @ + 1]
              /\ out' = [kind |-> "item", value |-> read_meas_file(s, s.i), desc |-> PathTuple(s, s.i)]
              /\ hist' = [h EXCEPT !.sends = @ + 1, !.yielded = @ + 1]
    ELSE /\ ~fail
         /\ self' = [s EXCEPT !.i = 0]
         /\ out' = [kind |-> "stop", value |-> 0, desc |-> NONE]
         /\ hist' = [h EXCEPT !.sends = @ + 1]

SendBodySkipOnError(s, h, fail) ==
    IF HasNext(s)
    THEN IF fail
         THEN /\ h.fails < MaxFails
              /\ self' = [s EXCEPT !.i = @ + 1]
              /\ out' = [kind |-> "error", value |-> 0, desc |-> PathTuple(s, s.i)]
              /\ hist' = [h EXCEPT !.sends = @ + 1, !.fails = @ + 1]
         ELSE /\ self' = [s EXCEPT !.i = @ + 1]
              /\ out' = [kind |-> "item", value |-> read_meas_file(s, s.i), desc |-> PathTuple(s, s.i)]
              /\ hist' = [h EXCEPT !.sends = @ + 1, !.yielded = @ + 1]
    ELSE /\ ~fail
         /\ self' = s
         /\ out' = [kind |-> "stop", value |-> 0, desc |-> NONE]
         /\ hist' = [h EXCEPT !.sends = @ + 1]

\* SPECTRE.send from the test of the cursor on; fail: the read of the item raises
SendBody(s, h, fail) ==
    IF HasNext(s)
    THEN IF fail
         THEN /\ h.fails < MaxFails
              /\ self' = s
              /\ out' = [kind |-> "error", value |-> 0, desc |-> PathTuple(s, s.i)]
              /\ hist' = [h EXCEPT !.sends = @ + 1, !.fails = @ + 1]
         ELSE /\ self' = [s EXCEPT !.i = @ + 1]
              /\ out' = [kind |-> "item", value |-> read_meas_file(s, s.i), desc |-> PathTuple(s, s.i)]
              /\ hist' = [h EXCEPT !.sends = @ + 1, !.yielded = @ + 1]
    ELSE /\ ~fail
         /\ self' = s
         /\ out' = [kind |-> "stop", value |-> 0, desc |-> NONE]
         /\ hist' = [h EXCEPT !.sends = @ + 1]

\* what the caller of _init_dataset does with the finalized object s
Return(s, h, fail) ==
    CASE s.ret = "init" ->
           /\ ~fail
           /\ self' = [s EXCEPT !.num_meas = LenIds(s)]
           /\ out' = [kind |-> "object", value |-> LenIds(s), desc |-> NONE]
           /\ hist' = h
      [] s.ret = "len" ->
           /\ ~fail
           /\ self' = s
           /\ out' = [kind |-> "len", value |-> LenIds(s), desc |-> NONE]
           /\ hist' = h
      [] OTHER -> SendBody(s, h, fail)

\* SPECTRE._init_dataset up to the loop, called for `ret`: a cache hit loads the
\* record and finishes, a miss makes the directory and starts the loop
InitDataset(s, h, ret, fail) ==
    LET s1 == [s EXCEPT !.cache_dir = CacheDirOf(s), !.ret = ret]
        h1 == [h EXCEPT !.finalizations = @ + 1]
    IN  IF CacheHit(s1, cachefs)
        THEN /\ cachefs' = cachefs
             /\ LET s2 == [s1 EXCEPT !.meas_list = pickle_load(cachefs.files[CacheFile(s1)])]
                IN  \E ids \in IdsOf(s2) :
                        Return([s2 EXCEPT !.ids = Some(ids), !.pc = "ready"], [h1 EXCEPT !.hit = TRUE], fail)
        ELSE /\ ~fail
             /\ cachefs' = Mkdir(cachefs, s1.cache_dir)
             /\ self' = [s1 EXCEPT !.pc = "cleaning", !.it = 0]
             /\ out' = NoOut
             /\ hist' = h1

\* SPECTRE.__init__, the references readable
Construct(int_time, shuffle, cache_dir, clean_threshold, cache, augment) ==
    /\ self.pc = "none"
    /\ LET s0 == [NoObject EXCEPT !.int_time = int_time, !.root_dir = RootDir,
                                  !.cache_dir = cache_dir, !.cache = cache,
                                  !.clean_threshold = clean_threshold,
                                  !.augment = augment, !.shuffle = shuffle]
           refs == read_reference(s0)
           s1 == [s0 EXCEPT !.dark_meas = refs[1], !.white_meas = refs[2],
                            !.meas_list = scan_root(s0.root_dir, listdir, s0.augment)]
           h == [hist EXCEPT !.candidate = s1.meas_list, !.requests = read_reference_calls(s0)]
       IN  IF IsFinalized(s1)
           THEN Return([s1 EXCEPT !.pc = "ready"], h, FALSE) /\ cachefs' = cachefs
           ELSE InitDataset(s1, h, "init", FALSE)
    /\ UNCHANGED listdir

\* SPECTRE.__init__, a reference unreadable: no object comes to be
ConstructRefFail ==
    /\ self.pc = "none"
    /\ self' = [NoObject EXCEPT !.pc = "failed", !.root_dir = RootDir]
    /\ out' = [kind |-> "error", value |-> 0, desc |-> NONE]
    /\ hist' = hist
    /\ UNCHANGED <<listdir, cachefs>>

CleanStepSaving(fail) ==
    /\ self.pc = "cleaning"
    /\ self.it < Len(self.meas_list)
    /\ LET meas == self.meas_list[self.it + 1]
           mean_signal == MeanSignal(self, meas)
       IN  IF fail
           THEN /\ self' = [self EXCEPT !.pc = "failed", !.it = @ + 1]
                /\ out' = [kind |-> "error", value |-> 0, desc |-> meas]
                /\ hist' = [hist EXCEPT !.reads = @ \o SpectrumReads(meas)]
           ELSE /\ self' = [self EXCEPT !.it = @ + 1,
                                        !.meas_list = IF Discard(mean_signal, self.clean_threshold)
                                                      THEN Remove(@, meas) ELSE @]
                /\ out' = out
                /\ hist' = [hist EXCEPT !.reads = @ \o SpectrumReads(meas),
                                        !.evaluated = Append(@, meas)]
    /\ cachefs' = IF self.cache /\ ~fail THEN Persist(cachefs, self') ELSE cachefs
    /\ UNCHANGED listdir

\* one turn of the loop `for meas in self.meas_list`; fail: a spectrum read raises
CleanStep(fail) ==
    /\ self.pc = "cleaning"
    /\ self.it < Len(self.meas_list)
    /\ LET meas == self.meas_list[self.it + 1]
           mean_signal == MeanSignal(self, meas)
       IN  IF fail
           THEN /\ self' = [self EXCEPT !.pc = "failed", !.it = @ + 1]
                /\ out' = [kind |-> "error", value |-> 0, desc |-> meas]
                /\ hist' = [hist EXCEPT !.reads = @ \o SpectrumReads(meas)]
           ELSE /\ self' = [self EXCEPT !.it = @ + 1,
                                        !.meas_list = IF Discard(mean_signal, self.clean_threshold)
                                                      THEN Remove(@, meas) ELSE @]
                /\ out' = out
                /\ hist' = [hist EXCEPT !.reads = @ \o SpectrumReads(meas),
                                        !.evaluated = Append(@, meas)]
    /\ UNCHANGED <<listdir, cachefs>>

\* the loop is over: the record is written if caching is on, the order is drawn,
\* and the caller goes on
CleanFinish(fail) ==
    /\ self.pc = "cleaning"
    /\ self.it >= Len(self.meas_list)
    /\ cachefs' = IF self.cache THEN Persist(cachefs, self) ELSE cachefs
    /\ \E ids \in IdsOf(self) :
           Return([self EXCEPT !.ids = Some(ids), !.pc = "ready"],
                  [hist EXCEPT !.wrote = self.cache], fail)
    /\ UNCHANGED listdir

\* the object is let go, and the program may construct the next one
Drop ==
    /\ self.pc \in {"ready", "failed"}
    /\ self' = NoObject
    /\ out' = NoOut
    /\ hist' = NoHist
    /\ UNCHANGED <<listdir, cachefs>>

\* SPECTRE.__len__
LenCall ==
    /\ self.pc = "ready"
    /\ IF IsFinalized(self)
       THEN /\ out' = [kind |-> "len", value |-> LenIds(self), desc |-> NONE]
            /\ UNCHANGED <<self, hist, cachefs>>
       ELSE InitDataset(self, hist, "len", FALSE)
    /\ UNCHANGED listdir

\* SPECTRE.send
Send(fail) ==
    /\ self.pc = "ready"
    /\ hist.sends < Len(self.meas_list) + MaxExtra
    /\ IF IsFinalized(self)
       THEN SendBody(self, hist, fail) /\ UNCHANGED cachefs
       ELSE InitDataset(self, hist, "send", fail)
    /\ UNCHANGED listdir

\* SPECTRE.throw: the exception is raised to the caller
throw(typ) == [raised |-> typ]

\* Generator.close: throw(GeneratorExit), and GeneratorExit is passed over
Close ==
    /\ self.pc = "ready"
    /\ LET r == throw("GeneratorExit")
       IN  out' = IF r.raised \in {"GeneratorExit", "StopIteration"}
                  THEN [kind |-> "closed", value |-> 0, desc |-> NONE]
                  ELSE [kind |-> "raised", value |-> 0, desc |-> NONE]
    /\ self' = self
    /\ hist' = [hist EXCEPT !.closed = TRUE]
    /\ UNCHANGED <<listdir, cachefs>>

----------------------------------------------------------------------------
(* Spec: one dataset object on a cache storage that holds nothing yet, the root
   holding any of the measurement folders in any order *)

FreshCache == [dirs |-> {}, files |-> <<>>, saved |-> <<>>]

Init ==
    /\ \E ms \in Listings({MeasName(k) : k \in 1..MaxMeas}, MaxMeas) : listdir = Layout(ms)
    /\ cachefs = FreshCache
    /\ self = NoObject
    /\ out = NoOut
    /\ hist = NoHist

Next ==
    \/ \E int_time \in IntTimes, shuffle \in BOOLEAN, cache_dir \in CacheDirs,
          clean_threshold \in Thresholds, cache \in BOOLEAN, augment \in BOOLEAN :
           Construct(int_time, shuffle, cache_dir, clean_threshold, cache, augment)
    \/ ConstructRefFail
    \/ \E fail \in BOOLEAN : CleanStep(fail)
    \/ \E fail \in BOOLEAN : CleanFinish(fail)
    \/ LenCall
    \/ \E fail \in BOOLEAN : Send(fail)
    \/ Close

Spec == Init /\ [][Next]_vars

----------------------------------------------------------------------------
(* SpecCache: dataset objects one after the other on one cache storage, the
   root holding the first n measurement folders *)

InitCache ==
    /\ \E n \in 0..MaxMeas : listdir = Layout([k \in 1..n |-> MeasName(k)])
    /\ cachefs = FreshCache
    /\ self = NoObject
    /\ out = NoOut
    /\ hist = NoHist

NextCache == Next \/ Drop

SpecCache == InitCache /\ [][NextCache]_vars

----------------------------------------------------------------------------
(* SpecScan: _scan_root on any root listing *)

ScanPool == {MeasName(k) : k \in 1..MaxScanMeas} \cup {Dark, White, Hidden}

InitScan ==
    /\ listdir \in Listings(ScanPool, MaxScanEntries)
    /\ cachefs = FreshCache
    /\ self = NoObject
    /\ out = NoOut
    /\ hist = NoHist

\* the constructor up to self.meas_list = self._scan_root()
Scan(augment) ==
    /\ self.pc = "none"
    /\ self' = [NoObject EXCEPT !.pc = "scanned", !.root_dir = RootDir, !.augment = augment,
                                !.meas_list = scan_root(RootDir, listdir, augment)]
    /\ UNCHANGED <<listdir, cachefs, out, hist>>

NextScan == \E augment \in BOOLEAN : Scan(augment)

SpecScan == InitScan /\ [][NextScan]_vars

----------------------------------------------------------------------------
(* SpecRoots: dataset objects constructed one after the other on one cache
   storage, the folders under the root changing between them *)

\* between two objects the root comes to hold another number of folders
ChangeRoot ==
    /\ self.pc = "none"
    /\ \E n \in 0..MaxMeas :
           /\ listdir' = Layout([k \in 1..n |-> MeasName(k)])
           /\ listdir' # listdir
    /\ UNCHANGED <<cachefs, self, out, hist>>

NextRoots ==
    \/ \E int_time \in IntTimes, shuffle \in BOOLEAN, cache_dir \in CacheDirs,
          clean_threshold \in Thresholds, cache \in BOOLEAN, augment \in BOOLEAN :
           Construct(int_time, shuffle, cache_dir, clean_threshold, cache, augment)
    \/ \E fail \in BOOLEAN : CleanStep(fail)
    \/ \E fail \in BOOLEAN : CleanFinish(fail)
    \/ Drop
    \/ ChangeRoot

SpecRoots == InitCache /\ [][NextRoots]_vars

----------------------------------------------------------------------------
(* SpecRead: the references read for any configured integration time and
   wavelength range, and single measurements read after them *)

AllIntTimes == {1400, 1200, 1000, 800}
LambRanges == {<<lo, hi>> : lo \in {449, 450, 451}, hi \in {689, 690, 691}}

InitRead ==
    /\ \E n \in 0..MaxMeas : listdir = Layout([k \in 1..n |-> MeasName(k)])
    /\ cachefs = FreshCache
    /\ self = NoObject
    /\ out = NoOut
    /\ hist = NoHist

\* the constructor up to self.dark_meas, self.white_meas = self._read_reference()
ReadReference(int_time, lamb_range) ==
    /\ self.pc = "none"
    /\ LET s0 == [NoObject EXCEPT !.int_time = int_time, !.lamb_range = lamb_range,
                                  !.root_dir = RootDir]
           refs == read_reference(s0)
       IN  /\ self' = [s0 EXCEPT !.dark_meas = refs[1], !.white_meas = refs[2],
                                  !.pc = "referenced"]
           /\ hist' = [hist EXCEPT !.requests = read_reference_calls(s0)]
    /\ UNCHANGED <<listdir, cachefs, out>>

\* SPECTRE._read_meas_file_singular on the k-th entry of the root
ReadSingular(k) ==
    /\ self.pc = "referenced"
    /\ Len(hist.requests) < 4 + 2 * MaxReads
    /\ k \in 1..Len(listdir)
    /\ IsMeasurement(listdir[k])
    /\ LET path == Join(self.root_dir, listdir[k])
       IN  /\ out' = [kind |-> "item", value |-> read_meas_file_singular(self, path),
                      desc |-> <<path, NONE>>]
           /\ hist' = [hist EXCEPT !.requests =
                           @ \o read_measurement_calls(path, self.int_time, DefaultLambRange)]
    /\ UNCHANGED <<listdir, cachefs, self>>

NextRead ==
    \/ \E int_time \in AllIntTimes, lamb_range \in LambRanges : ReadReference(int_time, lamb_range)
    \/ \E k \in 1..(MaxMeas + 3) : ReadSingular(k)

SpecRead == InitRead /\ [][NextRead]_vars

----------------------------------------------------------------------------
(* SpecNorm: utils.normalize_array on any array and references with white > dark,
   and again on what it returned *)

RawValues == {Rat(-1, 1), Rat(0, 1), Rat(1, 2), Rat(1, 1), Rat(3, 1)}
References == {<<Rat(0, 1), Rat(1, 1)>>, <<Rat(0, 1), Rat(2, 1)>>, <<Rat(0, 1), Rat(5, 1)>>,
               <<Rat(1, 1), Rat(2, 1)>>, <<Rat(1, 1), Rat(5, 1)>>}

\* value holds the arguments of the next call: array, dark, white; given is the
\* array the last call was given, of which array is the result
InitNorm ==
    /\ \E n \in 1..MaxNormLen : \E a \in [1..n -> RawValues], r \in [1..n -> References] :
           out = [kind |-> "raw",
                  value |-> [array |-> a, dark |-> [k \in 1..n |-> r[k][1]],
                             white |-> [k \in 1..n |-> r[k][2]], given |-> <<>>],
                  desc |-> NONE]
    /\ listdir = <<>>
    /\ cachefs = FreshCache
    /\ self = NoObject
    /\ hist = NoHist

\* array = normalize_array(array, dark, white), on a raw array and on the result
NormalizeArray ==
    /\ out.kind \in {"raw", "normalized"}
    /\ out' = [out EXCEPT
                  !.kind = IF out.kind = "raw" THEN "normalized" ELSE "renormalized",
                  !.value = [@ EXCEPT !.array = normalize_array(@, out.value.dark, out.value.white),
                                      !.given = out.value.array]]
    /\ UNCHANGED <<listdir, cachefs, self, hist>>

NextNorm == NormalizeArray

SpecNorm == InitNorm /\ [][NextNorm]_vars

----------------------------------------------------------------------------
(* The claims *)

\* the filtered index holds descriptor d
Holds(list, d) == \E j \in 1..Len(list) : list[j] = d

\* the object came out of a cleaning pass
Cleaned == self.pc = "ready" /\ ~hist.hit

\* the descriptors over the measurement folders
Descriptors ==
    {<<a, NONE>> : a \in MeasFolders} \cup {<<a, b>> : a \in MeasFolders, b \in MeasFolders}

\* an object holding the references of the root
WithReferences ==
    [NoObject EXCEPT !.root_dir = RootDir,
                     !.dark_meas = read_reference([root_dir |-> RootDir])[1],
                     !.white_meas = read_reference([root_dir |-> RootDir])[2]]

\* the mean signal the cleaning loop computes for each descriptor
Signal == [d \in Descriptors |-> MeanSignal(WithReferences, d)]

\* C1: after a cleaning pass no descriptor whose mean signal is strictly below
\* clean_threshold remains in the filtered index.
C1_NoWeakDescriptorRemains ==
    Cleaned =>
        \A k \in 1..Len(self.meas_list) :
            ~NLess(Signal[self.meas_list[k]], self.clean_threshold)

\* C2: after a cleaning pass every candidate descriptor whose mean signal is at
\* least clean_threshold, one exactly at the threshold included, is in the
\* filtered index.
C2_MeetingThresholdKept ==
    Cleaned =>
        \A k \in 1..Len(hist.candidate) :
            ~NLess(Signal[hist.candidate[k]], self.clean_threshold)
                => Holds(self.meas_list, hist.candidate[k])

\* a pass that discarded something and kept a descriptor exactly at the threshold
C2_Witness ==
    /\ Cleaned
    /\ Len(self.meas_list) < Len(hist.candidate)
    /\ \E k \in 1..Len(hist.candidate) :
           /\ Signal[hist.candidate[k]] = self.clean_threshold
           /\ Holds(self.meas_list, hist.candidate[k])

\* C3: with K descriptors in the filtered index and no failing read, exactly the
\* first K send calls give an item and every later one signals exhaustion.
C3_ExactlyKThenExhausted ==
    (self.pc = "ready" /\ hist.fails = 0) =>
        LET K == Len(self.meas_list)
        IN  /\ hist.yielded = IF hist.sends < K THEN hist.sends ELSE K
            /\ out.kind = "item" => hist.sends <= K
            /\ out.kind = "stop" => hist.sends > K

\* K >= 2 items were produced and two further calls signalled exhaustion
C3_Witness ==
    /\ self.pc = "ready"
    /\ hist.fails = 0
    /\ Len(self.meas_list) >= 2
    /\ hist.sends = Len(self.meas_list) + 2
    /\ hist.yielded = Len(self.meas_list)
    /\ out.kind = "stop"

\* C4: the k-th successful production materializes the descriptor at position
\* perm[k] of the filtered index, perm being the order drawn at finalization.
C4_ProducedInDrawnOrder ==
    (self.pc = "ready" /\ out.kind = "item") =>
        out.desc = self.meas_list[Get(self.ids)[self.i] + 1]

\* C5: an object that finalizes with caching enabled after another one wrote the
\* record has the index the writer had, same descriptors in the same order, and
\* its finalization reads no spectrum of a measurement folder.
C5_CacheRoundTrip ==
    (self.pc = "ready" /\ self.cache) =>
        /\ CacheFile(self) \in DOMAIN cachefs.saved
        /\ self.meas_list = cachefs.saved[CacheFile(self)]
        /\ ~hist.wrote => hist.hit /\ hist.reads = <<>>

\* a later object loaded an index holding augmented descriptors, fewer than it scanned
C5_Witness ==
    /\ self.pc = "ready"
    /\ self.cache
    /\ hist.hit
    /\ ~hist.wrote
    /\ Len(self.meas_list) >= 2
    /\ Len(self.meas_list) < Len(hist.candidate)
    /\ \E k \in 1..Len(self.meas_list) : self.meas_list[k][2] # NONE

\* C6: close is accepted in every iterator state without an error, and after a
\* close no send call gives an item.
C6_NoItemAfterClose ==
    /\ out.kind # "raised"
    /\ hist.closed => out.kind # "item"

\* the entries of the root that are neither hidden nor a reference
Measured == {k \in 1..Len(listdir) : listdir[k][1] # "." /\ listdir[k] # Dark /\ listdir[k] # White}

\* the path of the k-th of them, in scan order
RECURSIVE MeasuredPath(_, _)
MeasuredPath(k, from) ==
    IF from \in Measured
    THEN IF k = 1 THEN RootDir \o <<"/">> \o listdir[from] ELSE MeasuredPath(k - 1, from + 1)
    ELSE MeasuredPath(k, from + 1)

\* C7: with N measurement entries under the root the candidate index has length
\* N without augmentation and N + floor(N/2) * ceil(N/2) + N with it.
C7_CandidateLength ==
    self.pc = "scanned" =>
        LET N == Cardinality(Measured)
        IN  Len(self.meas_list) =
                IF self.augment THEN N + (N \div 2) * (N - (N \div 2)) + N ELSE N

\* an odd number of folders beside both references and a hidden entry, augmented
C7_Witness ==
    /\ self.pc = "scanned"
    /\ self.augment
    /\ Cardinality(Measured) = 3
    /\ Len(self.meas_list) = 8

\* C8: with augmentation the candidate index is L ++ Cross ++ Square: the
\* singular descriptors in scan order, then (a, b) for a in the first
\* floor(N/2) of L and b in the rest, by a and then b, then (f, f) in scan
\* order; no reference and no hidden entry is in a descriptor.
C8_CandidateOrder ==
    (self.pc = "scanned" /\ self.augment) =>
        LET N == Cardinality(Measured)
            h == N \div 2
            P(k) == MeasuredPath(k, 1)
            ml == self.meas_list
        IN  /\ Len(ml) = N + h * (N - h) + N
            /\ \A k \in 1..N : ml[k] = <<P(k), NONE>>
            /\ \A a \in 1..h : \A b \in 1..(N - h) :
                   ml[N + (a - 1) * (N - h) + b] = <<P(a), P(h + b)>>
            /\ \A k \in 1..N : ml[N + h * (N - h) + k] = <<P(k), P(k)>>
            /\ \A k \in 1..Len(ml) : \A slot \in 1..2 :
                   /\ ml[k][slot] # RootDir \o <<"/">> \o Dark
                   /\ ml[k][slot] # RootDir \o <<"/">> \o White
                   /\ ml[k][slot] # RootDir \o <<"/">> \o Hidden

\* three folders scanned with augmentation after a reference, the one of the
\* first half paired with the two of the second
C8_Witness ==
    /\ self.pc = "scanned"
    /\ self.augment
    /\ Cardinality(Measured) = 3
    /\ listdir[1] = Dark
    /\ self.meas_list[4][1] = self.meas_list[5][1]
    /\ self.meas_list[4][2] # self.meas_list[5][2]

\* C9: _init_dataset runs at most once per object, it has run to its end before
\* a length is reported or an item produced, and every length query gives the
\* value the constructor stored.
C9_FinalizedOnce ==
    /\ hist.finalizations <= 1
    /\ out.kind \in {"object", "len", "item", "stop"} =>
           /\ hist.finalizations = 1
           /\ self.pc = "ready"
           /\ self.ids # Nothing
    /\ out.kind = "len" => out.value = self.num_meas /\ out.value = Len(self.meas_list)

\* a length query after a cache load, productions and a close
C9_Witness ==
    /\ out.kind = "len"
    /\ hist.hit
    /\ hist.yielded >= 1
    /\ hist.closed
    /\ hist.finalizations = 1

\* C10: the cache record changes only in the step that ends the cleaning loop,
\* where it takes the whole filtered index; a pass aborted by a read failure
\* leaves every record as it was.
C10_RecordOnlyAfterFullPass ==
    [][/\ cachefs'.files # cachefs.files =>
              /\ self.pc = "cleaning"
              /\ self.it >= Len(self.meas_list)
              /\ self'.pc = "ready"
              /\ cachefs'.files[CacheFile(self)] = pickle_dump(self'.meas_list)
       /\ self'.pc = "failed" => cachefs'.files = cachefs.files]_vars

\* a pass with caching enabled aborted after some descriptors, no record at its location
C10_Witness ==
    /\ self.pc = "failed"
    /\ self.cache
    /\ hist.evaluated # <<>>
    /\ CacheFile(self) \notin DOMAIN cachefs.files

\* C11: the Reference Reader asks for the frame of Dark and of White at the
\* configured int_time and for their spectrum over the configured lamb_range.
C11_ReferencesAsConfigured ==
    self.pc = "referenced" =>
        SubSeq(hist.requests, 1, 4) =
            <<Call("read_frame", Join(self.root_dir, Dark), <<self.int_time>>),
              Call("read_spectrum", Join(self.root_dir, Dark), self.lamb_range),
              Call("read_frame", Join(self.root_dir, White), <<self.int_time>>),
              Call("read_spectrum", Join(self.root_dir, White), self.lamb_range)>>

\* C12 as stated: with white > dark element-wise, normalizing an array that
\* normalize_array returned, with the same references, gives that array back.
C12_NormalizeIdempotent ==
    out.kind = "renormalized" => out.value.array = out.value.given

\* C12: with dark = 0 and white = 1 element-wise, normalizing an array that
\* normalize_array returned, with the same references, gives that array back.
C12_IdempotentOnUnitReferences ==
    (/\ out.kind = "renormalized"
     /\ \A k \in 1..Len(out.value.array) :
            out.value.dark[k] = Rat(0, 1) /\ out.value.white[k] = One)
        => out.value.array = out.value.given

\* a second normalization on unit references of an array with an element clipped
\* from below and one strictly inside the range
C12_Witness ==
    /\ out.kind = "renormalized"
    /\ \A k \in 1..Len(out.value.array) :
           out.value.dark[k] = Rat(0, 1) /\ out.value.white[k] = One
    /\ \E k \in 1..Len(out.value.array) : out.value.array[k] = EPSILON
    /\ \E k \in 1..Len(out.value.array) :
           NLess(EPSILON, out.value.array[k]) /\ NLess(out.value.array[k], One)

\* how often x occurs in seq
Count(seq, x) == Cardinality({k \in 1..Len(seq) : seq[k] = x})

\* C13: a cleaning pass evaluates every descriptor of the candidate index
\* against the threshold exactly once: none is skipped, none evaluated twice.
C13_EveryCandidateEvaluatedOnce ==
    Cleaned =>
        \A k \in 1..Len(hist.candidate) : Count(hist.evaluated, hist.candidate[k]) = 1

\* C14: a constructor that finds a record at the cache location with caching
\* enabled ends with the cached content as its index, loaded and not cleaned,
\* with no spectrum read, whatever the root, the candidate index, the threshold
\* and the augment flag are.
C14_HitLoadsRecordUnvalidated ==
    [][(/\ self.pc = "none"
        /\ self'.pc \notin {"none", "failed"}
        /\ self'.cache
        /\ CacheFile(self') \in DOMAIN cachefs.files)
          => /\ self'.pc = "ready"
             /\ hist'.hit
             /\ self'.meas_list = cachefs.saved[CacheFile(self')]
             /\ hist'.reads = <<>>
             /\ hist'.evaluated = <<>>
             /\ cachefs' = cachefs]_vars

\* a loaded index holding a descriptor of a folder the root no longer has, one
\* the scan of this object did not give, and one below this object's threshold
C14_Witness ==
    /\ self.pc = "ready"
    /\ hist.hit
    /\ \E k \in 1..Len(self.meas_list) :
           \A j \in 1..Len(listdir) : Join(RootDir, listdir[j]) # self.meas_list[k][1]
    /\ \E k \in 1..Len(self.meas_list) : ~Holds(hist.candidate, self.meas_list[k])
    /\ \E k \in 1..Len(self.meas_list) :
           NLess(Signal[self.meas_list[k]], self.clean_threshold)

\* C15: an object with caching disabled leaves the cache location as it was:
\* no record is read or written and no cache directory is made.
C15_DisabledCacheUntouched ==
    (self.pc \in {"cleaning", "ready", "failed"} /\ ~self.cache) =>
        /\ cachefs = FreshCache
        /\ ~hist.hit
        /\ ~hist.wrote

\* C16: a read that fails in the cleaning pass or in a production reaches the
\* caller as an error, never as exhaustion, and the descriptor whose read failed
\* stays in the index.
C16_ReadFailurePropagates ==
    [][/\ hist'.fails = hist.fails + 1 =>
              /\ out'.kind = "error"
              /\ Holds(self'.meas_list, out'.desc)
       /\ (self.pc = "cleaning" /\ hist'.reads # hist.reads /\ hist'.evaluated = hist.evaluated) =>
              /\ self'.pc = "failed"
              /\ out'.kind = "error"
              /\ Holds(self'.meas_list, out'.desc)
       /\ (out'.kind = "stop" /\ hist'.sends = hist.sends + 1) =>
              self.i >= Len(self.meas_list)]_vars

\* a production failed after another one had given an item
C16_Witness ==
    /\ self.pc = "ready"
    /\ out.kind = "error"
    /\ hist.fails >= 1
    /\ hist.yielded >= 1
    /\ self.i < Len(self.meas_list)

\* C17: the cursor i stays within 0..K, K the length of the filtered index; no
\* call lowers it, a production that gives an item raises it by one, and length
\* queries, closes and sends that signal exhaustion or fail leave it as it is.
C17_CursorMonotone ==
    [][/\ self'.pc = "ready" => 0 <= self'.i /\ self'.i <= Len(self'.meas_list)
       /\ (self.pc = "ready" /\ self'.pc = "ready") =>
              /\ self'.i >= self.i
              /\ self'.i = IF out'.kind = "item" /\ hist'.sends = hist.sends + 1
                           THEN self.i + 1 ELSE self.i
              /\ hist'.yielded = hist.yielded + 1 <=> self'.i = self.i + 1]_vars

\* a length query after a close, with the cursor at the end of an index of two or more
C17_Witness ==
    /\ self.pc = "ready"
    /\ out.kind = "len"
    /\ hist.closed
    /\ hist.sends > hist.yielded
    /\ self.i = Len(self.meas_list)
    /\ self.i >= 2

\* C18: a send whose read fails leaves the cursor, the filtered index and the
\* item count as they were; the send after it takes up the same descriptor; and
\* when exhaustion is signalled K items have been given, failures or not.
C18_FailedSendChangesNothing ==
    [][/\ hist'.fails = hist.fails + 1 =>
              /\ self'.i = self.i
              /\ self'.meas_list = self.meas_list
              /\ self'.num_meas = self.num_meas
              /\ self'.ids = self.ids
       /\ (self.pc = "ready" /\ out.kind = "error" /\ hist'.sends = hist.sends + 1) =>
              /\ out'.kind \in {"item", "error"}
              /\ out'.desc = out.desc
       /\ (out'.kind = "stop" /\ self'.pc = "ready") =>
              hist'.yielded = Len(self'.meas_list)]_vars

\* exhaustion after K >= 2 items, one of which was given on the second attempt
C18_Witness ==
    /\ self.pc = "ready"
    /\ out.kind = "stop"
    /\ hist.fails >= 1
    /\ hist.yielded = Len(self.meas_list)
    /\ hist.yielded >= 2
    /\ hist.sends = hist.yielded + hist.fails + 1

\* seq holds no element twice
Distinct(seq) == \A a, b \in 1..Len(seq) : a # b => seq[a] # seq[b]

\* sub is seq with some of its elements left out
RECURSIVE IsSubsequence(_, _)
IsSubsequence(sub, seq) ==
    IF sub = <<>> THEN TRUE
    ELSE IF seq = <<>> THEN FALSE
    ELSE IF sub[1] = seq[1] THEN IsSubsequence(Tail(sub), Tail(seq))
    ELSE IsSubsequence(sub, Tail(seq))

\* C19: after a cleaning pass the filtered index is the candidate index with
\* some descriptors left out: no descriptor twice, the order kept; the candidate
\* descriptors are pairwise distinct and each one left out was evaluated.
C19_FilteredIsSubsequence ==
    Cleaned =>
        /\ Distinct(hist.candidate)
        /\ Distinct(self.meas_list)
        /\ IsSubsequence(self.meas_list, hist.candidate)
        /\ \A k \in 1..Len(hist.candidate) :
               ~Holds(self.meas_list, hist.candidate[k]) => Holds(hist.evaluated, hist.candidate[k])

\* a pass that took a descriptor out from between two that stayed
C19_Witness ==
    /\ Cleaned
    /\ \E k \in 2..(Len(hist.candidate) - 1) :
           /\ ~Holds(self.meas_list, hist.candidate[k])
           /\ Holds(self.meas_list, hist.candidate[k - 1])
           /\ Holds(self.meas_list, hist.candidate[k + 1])

====
